---- MODULE Spec2Model ----
(***************************************************************************)
(* Model of the ClawEvolve Python sidecar (src/sidecar/app.py): the policy *)
(* codec (_parse_policy and the JSON encoding of the seed), the fitness    *)
(* evaluator (evaluate, _evaluate_example, _tool_fitness_for_trajectory)   *)
(* and the /v1/evolve handler that splits the trajectories and drives the  *)
(* optimizer.                                                              *)
(*                                                                         *)
(* Python floats are modelled as exact rationals <<numerator, denominator>>*)
(* in lowest terms with a positive denominator; the rounding of IEEE       *)
(* doubles is outside the model.  A Python call that raises is modelled as *)
(* a result record whose field raised is TRUE.                             *)
(***************************************************************************)
EXTENDS Integers, Sequences, FiniteSets, TLC

\* ------------------------------------------------------------------------
\* Float arithmetic, as exact rationals.
\* ------------------------------------------------------------------------
\* The operators below bind their arguments as values (x \in {a}) before
\* using them, so that each argument is evaluated once.
Abs(x) == IF x < 0 THEN -x ELSE x

RECURSIVE GCD(_, _)
GCD(a, b) ==
    IF b = 0 THEN a
    ELSE CHOOSE r \in {GCD(y, x % y) : x \in {a}, y \in {b}} : TRUE

Reduced(n, d, g) ==
    IF d < 0 THEN <<(-n) \div g, (-d) \div g>> ELSE <<n \div g, d \div g>>

Rat(n, d) ==
    CHOOSE r \in {Reduced(x, y, GCD(Abs(x), Abs(y))) : x \in {n}, y \in {d}} : TRUE

R(n) == <<n, 1>>

\* Sums, products and comparisons divide by common factors first, so that
\* the intermediate integers stay small.
AddOver(a, b, g) ==
    Rat(a[1] * (b[2] \div g) + b[1] * (a[2] \div g), (a[2] \div g) * b[2])
RAdd(a, b) ==
    CHOOSE r \in {AddOver(x, y, GCD(x[2], y[2])) : x \in {a}, y \in {b}} : TRUE
RNeg(a) == CHOOSE r \in {<<-x[1], x[2]>> : x \in {a}} : TRUE
RSub(a, b) == RAdd(a, RNeg(b))
MulOver(a, b, g, h) ==
    Rat((a[1] \div g) * (b[1] \div h), (a[2] \div h) * (b[2] \div g))
RMul(a, b) ==
    CHOOSE r \in {MulOver(x, y, GCD(Abs(x[1]), y[2]), GCD(Abs(y[1]), x[2])) :
                     x \in {a}, y \in {b}} : TRUE
RInv(a) ==
    CHOOSE r \in {IF x[1] < 0 THEN <<-x[2], -x[1]>> ELSE <<x[2], x[1]>> :
                     x \in {a}} : TRUE
RDiv(a, b) == RMul(a, RInv(b))
LtOver(a, b, g) == a[1] * (b[2] \div g) < b[1] * (a[2] \div g)
RLt(a, b) == \E x \in {a}, y \in {b} : LtOver(x, y, GCD(x[2], y[2]))
RLe(a, b) == ~RLt(b, a)

\* Python's max(a, b) and min(a, b) on two floats.
RMax(a, b) ==
    CHOOSE r \in {IF RLt(x, y) THEN y ELSE x : x \in {a}, y \in {b}} : TRUE
RMin(a, b) ==
    CHOOSE r \in {IF RLt(y, x) THEN y ELSE x : x \in {a}, y \in {b}} : TRUE

\* int(x) on a float: truncation toward zero.
Trunc(a) ==
    CHOOSE r \in {IF x[1] >= 0 THEN x[1] \div x[2] ELSE -((-x[1]) \div x[2]) :
                     x \in {a}} : TRUE

clamp(value, min_value, max_value) == RMax(min_value, RMin(max_value, value))

\* The sum of s[lo..hi]; halving keeps the evaluation shallow, and the order
\* of the additions does not matter in exact arithmetic.
RECURSIVE SumRange(_, _, _)
SumRange(s, lo, hi) ==
    IF lo > hi THEN R(0)
    ELSE IF lo = hi THEN s[lo]
    ELSE RAdd(SumRange(s, lo, (lo + hi) \div 2),
              SumRange(s, ((lo + hi) \div 2) + 1, hi))

SumSeq(s) == SumRange(s, 1, Len(s))

mean(values) ==
    IF values = <<>> THEN R(0) ELSE RDiv(SumSeq(values), R(Len(values)))

InUnit(x) == RLe(R(0), x) /\ RLe(x, R(1))

\* ------------------------------------------------------------------------
\* Loosely typed values (Dict[str, Any]): a slot records what kind of value a
\* key holds, so that the casts and isinstance tests of the code can fail.
\* ------------------------------------------------------------------------
\* A key that is absent (dict.get returns None), a number, or a string that
\* float() cannot cast.
Absent == [t |-> "absent", v |-> R(0)]
Num(r) == [t |-> "num", v |-> r]
Text == [t |-> "text", v |-> R(0)]

\* float(value) succeeds on a number; None raises TypeError, text ValueError.
Castable(slot) == slot.t = "num"

NoStr == [t |-> "absent", s |-> ""]
Str(x) == [t |-> "str", s |-> x]
NotStr(kind) == [t |-> kind, s |-> ""]

NoDict == [t |-> "absent", w |-> <<>>]
Dict(weights) == [t |-> "dict", w |-> weights]
NotDict == [t |-> "other", w |-> <<>>]

NoList == [t |-> "absent", v |-> <<>>]
List(items) == [t |-> "list", v |-> items]
NotList == [t |-> "other", v |-> <<>>]

NoSafeguards ==
    [t |-> "absent", maxRiskScore |-> Absent, disallowedTools |-> NoList]
SafeguardsDict(max_risk, disallowed) ==
    [t |-> "dict", maxRiskScore |-> max_risk, disallowedTools |-> disallowed]
NotSafeguards ==
    [t |-> "other", maxRiskScore |-> Absent, disallowedTools |-> NoList]

\* The object with no keys: json.loads("{}"), or a genome with no fields.
EmptyObj ==
    [systemPrompt |-> NoStr, responseStyle |-> NoStr,
     toolPreferences |-> NoDict, toolRetryBudget |-> Absent,
     deliberationBudget |-> Absent, memoryDepth |-> Absent,
     safeguards |-> NoSafeguards]

ResponseStyles == {"concise", "balanced", "detailed"}

\* Placeholder for the policy of a call that raised (no value is returned).
NoPolicy ==
    [systemPrompt |-> "<raised>", responseStyle |-> "<raised>",
     toolPreferences |-> <<>>, toolRetryBudget |-> 0,
     deliberationBudget |-> 0, memoryDepth |-> 0,
     safeguards |-> [maxRiskScore |-> R(0), disallowedTools |-> <<>>]]

\* ------------------------------------------------------------------------
\* normalize_tool_preferences
\* ------------------------------------------------------------------------
RECURSIVE SumOver(_, _)
SumOver(f, keys) ==
    IF keys = {} THEN R(0)
    ELSE LET k == CHOOSE x \in keys : TRUE
         IN  RAdd(f[k], SumOver(f, keys \ {k}))

normalize_tool_preferences(weights) ==
    IF \E k \in DOMAIN weights : ~Castable(weights[k])
    THEN [raised |-> TRUE, value |-> <<>>]
    ELSE LET safe_weights == [k \in DOMAIN weights |-> RMax(R(0), weights[k].v)]
             total == SumOver(safe_weights, DOMAIN weights)
             n == IF Cardinality(DOMAIN weights) < 1 THEN 1
                  ELSE Cardinality(DOMAIN weights)
         IN  IF RLe(total, R(0))
             THEN [raised |-> FALSE,
                   value |-> [k \in DOMAIN weights |-> Rat(1, n)]]
             ELSE [raised |-> FALSE,
                   value |-> [k \in DOMAIN weights |-> RDiv(safe_weights[k], total)]]

\* ------------------------------------------------------------------------
\* PolicyCodec: json.dumps of a policy (evolve, seed_candidate) and
\* OpenClawTelemetryAdapter._parse_policy.
\* ------------------------------------------------------------------------
\* A candidate's policy_json: the key is missing, the string is empty, the
\* text is not JSON, the JSON is not an object (a list, a number, null), or
\* it is an object.
Payload(kind, obj) == [kind |-> kind, obj |-> obj]

\* json.dumps(policy, separators=(",", ":"), sort_keys=True): the text of an
\* object that holds every field of the policy with its JSON type.
JsonDumps(policy) ==
    Payload("object",
        [systemPrompt |-> Str(policy.systemPrompt),
         responseStyle |-> Str(policy.responseStyle),
         toolPreferences |->
             Dict([k \in DOMAIN policy.toolPreferences |->
                      Num(policy.toolPreferences[k])]),
         toolRetryBudget |-> Num(R(policy.toolRetryBudget)),
         deliberationBudget |-> Num(R(policy.deliberationBudget)),
         memoryDepth |-> Num(R(policy.memoryDepth)),
         safeguards |->
             SafeguardsDict(Num(policy.safeguards.maxRiskScore),
                            List(policy.safeguards.disallowedTools))])

NoError == "None"
\* Mutant: the parse failure is swallowed and no error is reported.
ParseErrorDropped == NoError
ParseErrorText == "invalid policy_json"

Returned(policy, parse_error) ==
    [raised |-> FALSE, exc |-> "", policy |-> policy, parse_error |-> parse_error]
Raised(exc) ==
    [raised |-> TRUE, exc |-> exc, policy |-> NoPolicy, parse_error |-> NoError]

\* Mutant: the cast value is truncated but not clamped.
safe_int_unclamped(value, fallback, min_v, max_v) ==
    IF Castable(value) THEN Trunc(value.v) ELSE fallback

safe_int(value, fallback, min_v, max_v) ==
    IF Castable(value)
    THEN Trunc(clamp(value.v, R(min_v), R(max_v)))
    ELSE fallback

\* Mutant: the upper bound of maxRiskScore is 0.9.
parse_max_risk_narrow(safeguards, prior) ==
    IF safeguards.t = "dict" /\ safeguards.maxRiskScore.t # "absent"
       /\ Castable(safeguards.maxRiskScore)
    THEN clamp(safeguards.maxRiskScore.v, Rat(5, 100), Rat(90, 100))
    ELSE prior

\* The maxRiskScore a decode leaves in policy["safeguards"].
parse_max_risk(safeguards, prior) ==
    IF safeguards.t = "dict" /\ safeguards.maxRiskScore.t # "absent"
       /\ Castable(safeguards.maxRiskScore)
    THEN clamp(safeguards.maxRiskScore.v, Rat(5, 100), Rat(95, 100))
    ELSE prior

parse_disallowed(safeguards, prior) ==
    IF safeguards.t = "dict" /\ safeguards.disallowedTools.t = "list"
    THEN safeguards.disallowedTools.v
    ELSE prior

_parse_policy(seed_policy, candidate) ==
    LET payload == candidate.policy_json
        parsed == payload.obj
    IN  IF payload.kind \in {"missing", "empty"}
        THEN Returned(seed_policy, NoError)
        ELSE IF payload.kind = "invalid"
        THEN Returned(seed_policy, ParseErrorText)
        ELSE IF payload.kind # "object"
        THEN Raised("AttributeError")
        ELSE IF parsed.responseStyle.t = "list"
        THEN Raised("TypeError")
        ELSE LET prefs == IF parsed.toolPreferences.t = "dict"
                          THEN normalize_tool_preferences(parsed.toolPreferences.w)
                          ELSE [raised |-> FALSE,
                                value |-> seed_policy.toolPreferences]
             IN  IF prefs.raised
                 THEN Raised("ValueError")
                 ELSE Returned(
                     [systemPrompt |->
                          IF parsed.systemPrompt.t = "str"
                          THEN parsed.systemPrompt.s
                          ELSE seed_policy.systemPrompt,
                      responseStyle |->
                          IF parsed.responseStyle.t = "str"
                             /\ parsed.responseStyle.s \in ResponseStyles
                          THEN parsed.responseStyle.s
                          ELSE seed_policy.responseStyle,
                      toolPreferences |-> prefs.value,
                      toolRetryBudget |->
                          safe_int(parsed.toolRetryBudget,
                                   seed_policy.toolRetryBudget, 0, 8),
                      deliberationBudget |->
                          safe_int(parsed.deliberationBudget,
                                   seed_policy.deliberationBudget, 1, 12),
                      memoryDepth |->
                          safe_int(parsed.memoryDepth,
                                   seed_policy.memoryDepth, 1, 64),
                      safeguards |->
                          [maxRiskScore |->
                               parse_max_risk(parsed.safeguards,
                                              seed_policy.safeguards.maxRiskScore),
                           disallowedTools |->
                               parse_disallowed(parsed.safeguards,
                                                seed_policy.safeguards.disallowedTools)]],
                     NoError)

\* ------------------------------------------------------------------------
\* Genomes and objective weights.
\* ------------------------------------------------------------------------
\* int(seed_genome.get(key, default)): the default when the key is absent,
\* truncation of a number, ValueError on text.
genome_int(slot, default) ==
    IF slot.t = "absent" THEN default ELSE Trunc(slot.v)

seed_policy_from_genome(seed_genome) ==
    LET safeguards == seed_genome.safeguards
        prefs == IF seed_genome.toolPreferences.t = "absent"
                 THEN normalize_tool_preferences(<<>>)
                 ELSE normalize_tool_preferences(seed_genome.toolPreferences.w)
    IN  IF \/ seed_genome.toolPreferences.t = "other"
           \/ safeguards.t = "other"
           \/ safeguards.disallowedTools.t = "other"
           \/ prefs.raised
           \/ \E k \in {"toolRetryBudget", "deliberationBudget", "memoryDepth"} :
                  seed_genome[k].t = "text"
           \/ safeguards.maxRiskScore.t = "text"
        THEN [raised |-> TRUE, policy |-> NoPolicy]
        ELSE [raised |-> FALSE,
              policy |->
                [systemPrompt |->
                     IF seed_genome.systemPrompt.t = "absent" THEN ""
                     ELSE seed_genome.systemPrompt.s,
                 responseStyle |->
                     IF seed_genome.responseStyle.t = "absent" THEN "balanced"
                     ELSE seed_genome.responseStyle.s,
                 toolPreferences |-> prefs.value,
                 toolRetryBudget |-> genome_int(seed_genome.toolRetryBudget, 1),
                 deliberationBudget |-> genome_int(seed_genome.deliberationBudget, 2),
                 memoryDepth |-> genome_int(seed_genome.memoryDepth, 6),
                 safeguards |->
                     [maxRiskScore |->
                          IF safeguards.maxRiskScore.t = "absent"
                          THEN Rat(55, 100)
                          ELSE safeguards.maxRiskScore.v,
                      disallowedTools |-> safeguards.disallowedTools.v]]]

weight_or(slot, default) == IF slot.t = "absent" THEN default ELSE slot.v

objective_defaults(weights) ==
    [success |-> weight_or(weights.success, Rat(30, 100)),
     satisfaction |-> weight_or(weights.satisfaction, Rat(20, 100)),
     safety |-> weight_or(weights.safety, Rat(25, 100)),
     toolReliability |-> weight_or(weights.toolReliability, Rat(15, 100)),
     efficiency |-> weight_or(weights.efficiency, Rat(10, 100))]

NoWeights ==
    [success |-> Absent, satisfaction |-> Absent, safety |-> Absent,
     toolReliability |-> Absent, efficiency |-> Absent]

\* ------------------------------------------------------------------------
\* FitnessEvaluator.
\* ------------------------------------------------------------------------
normalized_cost(cost_usd) ==
    clamp(RSub(R(1), RDiv(cost_usd, Rat(15, 100))), R(0), R(1))

normalized_latency(latency_ms) ==
    clamp(RSub(R(1), RDiv(latency_ms, R(20000))), R(0), R(1))

\* metric_or_neutral(raw_value, normalizer), once per normalizer.
cost_or_neutral(raw_value) ==
    IF Castable(raw_value) THEN normalized_cost(raw_value.v) ELSE Rat(1, 2)

latency_or_neutral(raw_value) ==
    IF Castable(raw_value) THEN normalized_latency(raw_value.v) ELSE Rat(1, 2)

\* The score of one tool call (the body of the loop).
call_score(call, policy) ==
    LET tool_preferences == policy.toolPreferences
        max_risk == policy.safeguards.maxRiskScore
        pref == IF call.toolName \in DOMAIN tool_preferences
                THEN tool_preferences[call.toolName]
                ELSE Rat(1, 100)
        success_boost == IF call.success THEN R(1) ELSE Rat(-7, 10)
        call_risk == clamp(call.riskScore, R(0), R(1))
        baseline_risk_penalty == RMul(Rat(-1, 2), call_risk)
        risk_penalty == IF RLt(max_risk, call_risk) THEN Rat(-8, 10) ELSE R(0)
    IN  RMul(pref,
             RAdd(RAdd(RAdd(R(1), success_boost), baseline_risk_penalty),
                  risk_penalty))

_tool_fitness_for_trajectory(trajectory, policy) ==
    LET calls == trajectory.toolCalls
        scores == [i \in 1..Len(calls) |-> call_score(calls[i], policy)]
        raw == mean(scores)
    IN  IF calls = <<>> THEN Rat(1, 2)
        ELSE clamp(RDiv(RAdd(raw, R(1)), R(2)), R(0), R(1))

strategy_penalty(policy) ==
    RAdd(clamp(RDiv(R(policy.deliberationBudget), R(10)), R(0), Rat(3, 10)),
         clamp(RDiv(R(policy.memoryDepth), R(100)), R(0), Rat(2, 10)))

style_bonus(policy) ==
    RMul(Rat(5, 100),
         IF policy.responseStyle = "balanced" THEN R(1)
         ELSE IF policy.responseStyle = "concise" THEN Rat(95, 100)
         ELSE Rat(9, 10))

\* total before the final clamp.
weighted_total(objective_weights, objectives, policy) ==
    RSub(RAdd(RAdd(RAdd(RAdd(RAdd(
        RMul(objective_weights.success, objectives.successRate),
        RMul(objective_weights.satisfaction, objectives.satisfaction)),
        RMul(objective_weights.safety, objectives.safety)),
        RMul(objective_weights.toolReliability, objectives.toolReliability)),
        RMul(objective_weights.efficiency, objectives.efficiency)),
        style_bonus(policy)),
        strategy_penalty(policy))

\* Mutant: the total is returned without the final clamp.
final_total_unclamped(total) == total

final_total(total) == clamp(total, R(0), R(1))

\* The five objectives of one trajectory under a policy.
objectives_of(trajectory, policy) ==
    [successRate |-> IF trajectory.success THEN R(1) ELSE R(0),
     satisfaction |->
         clamp(RDiv(RAdd(trajectory.userFeedback, R(1)), R(2)), R(0), R(1)),
     safety |->
         clamp(RSub(R(1), RMin(R(1), RDiv(trajectory.safetyIncidents, R(3)))),
               R(0), R(1)),
     toolReliability |-> _tool_fitness_for_trajectory(trajectory, policy),
     efficiency |->
         clamp(RDiv(RAdd(cost_or_neutral(trajectory.costUsd),
                         latency_or_neutral(trajectory.latencyMs)), R(2)),
               R(0), R(1))]

failure_hint(objectives) ==
    IF RLe(R(1), objectives.successRate) /\ RLe(R(1), objectives.safety)
    THEN "Preserve this behavior while improving efficiency."
    ELSE "Improve safety checks and tool routing."

\* The tuple _evaluate_example returns, given its total and objectives.  The
\* feedback keeps the hint and the parse-error note, not the formatted numbers.
example_result(trajectory, total, objectives) ==
    [score |-> total,
     objectives |-> objectives,
     output |-> [score |-> total, objectives |-> objectives,
                 trajectoryId |-> trajectory.id],
     feedback |-> [hint |-> failure_hint(objectives), parse_error |-> NoError]]

scored_example(objective_weights, trajectory, policy, objectives) ==
    example_result(trajectory,
                   final_total(weighted_total(objective_weights, objectives, policy)),
                   objectives)

_evaluate_example(objective_weights, trajectory, policy) ==
    scored_example(objective_weights, trajectory, policy,
                   objectives_of(trajectory, policy))

\* Mutant: the reduced score is not clamped at 0.
penalized_unclamped(score) == RSub(score, Rat(8, 100))

\* The 0.08 reduction of a score when the candidate failed to parse.
penalized(score) == clamp(RSub(score, Rat(8, 100)), R(0), R(1))

\* Mutant: the trace records the score _evaluate_example returned, not the
\* reduced one.
loop_body_stale_trace(example, r, score, parse_error) ==
    [output |-> r.output, score |-> score, objectives |-> r.objectives,
     trace |-> [data |-> example, output |-> r.output, score |-> r.score,
                objective_scores |-> r.objectives,
                feedback |-> [r.feedback EXCEPT !.parse_error = parse_error]]]

\* What one pass of the loop over the batch appends, given the tuple r that
\* _evaluate_example returned for `example`.
loop_body(example, r, score, parse_error) ==
    [output |-> r.output, score |-> score, objectives |-> r.objectives,
     trace |-> [data |-> example, output |-> r.output, score |-> score,
                objective_scores |-> r.objectives,
                feedback |-> [r.feedback EXCEPT !.parse_error = parse_error]]]

penalty_applied(example, r, parse_error) ==
    loop_body(example, r,
              IF parse_error # NoError THEN penalized(r.score) ELSE r.score,
              parse_error)

evaluate_step(objective_weights, example, policy, parse_error) ==
    penalty_applied(example,
                    _evaluate_example(objective_weights, example, policy),
                    parse_error)

\* Mutant: the traces are returned whether or not they were asked for.
captured_always(capture_traces, traces) == [present |-> TRUE, v |-> traces]

\* trajectories if capture_traces else None
captured(capture_traces, traces) ==
    IF capture_traces THEN [present |-> TRUE, v |-> traces]
    ELSE [present |-> FALSE, v |-> <<>>]

NoBatch ==
    [raised |-> FALSE, called |-> FALSE, outputs |-> <<>>, scores |-> <<>>,
     trajectories |-> [present |-> FALSE, v |-> <<>>],
     objective_scores |->
         [successRate |-> <<>>, satisfaction |-> <<>>, safety |-> <<>>,
          toolReliability |-> <<>>, efficiency |-> <<>>]]

\* The EvaluationBatch built from what the loop appended, in order.
EvaluationBatch(steps, capture_traces) ==
    [raised |-> FALSE, called |-> TRUE,
     outputs |-> [i \in 1..Len(steps) |-> steps[i].output],
     scores |-> [i \in 1..Len(steps) |-> steps[i].score],
     trajectories |->
         captured(capture_traces, [i \in 1..Len(steps) |-> steps[i].trace]),
     objective_scores |->
         [successRate |->
              [i \in 1..Len(steps) |-> steps[i].objectives.successRate],
          satisfaction |->
              [i \in 1..Len(steps) |-> steps[i].objectives.satisfaction],
          safety |->
              [i \in 1..Len(steps) |-> steps[i].objectives.safety],
          toolReliability |->
              [i \in 1..Len(steps) |-> steps[i].objectives.toolReliability],
          efficiency |->
              [i \in 1..Len(steps) |-> steps[i].objectives.efficiency]]]

\* evaluate after its first line, given what _parse_policy returned.
evaluate_decoded(decoded_policy, objective_weights, batch, capture_traces) ==
    IF decoded_policy.raised
    THEN [NoBatch EXCEPT !.raised = TRUE, !.called = TRUE]
    ELSE EvaluationBatch(
             [i \in 1..Len(batch) |->
                 evaluate_step(objective_weights, batch[i],
                               decoded_policy.policy, decoded_policy.parse_error)],
             capture_traces)

evaluate(seed_policy, objective_weights, batch, candidate, capture_traces) ==
    evaluate_decoded(_parse_policy(seed_policy, candidate), objective_weights,
                     batch, capture_traces)

\* ------------------------------------------------------------------------
\* Genome packaging and history extraction.
\* ------------------------------------------------------------------------
NoGenome ==
    [id |-> "", baseModel |-> "", systemPrompt |-> "", responseStyle |-> "",
     toolPreferences |-> <<>>, toolRetryBudget |-> 0, deliberationBudget |-> 0,
     memoryDepth |-> 0, safeguards |-> NoPolicy.safeguards,
     mutationTrace |-> <<>>]

\* The id is a fresh time and uuid string; the model gives it one name.
genome_from_policy(seed_genome, policy) ==
    [id |-> "pygenome_<time>_<uuid>",
     baseModel |-> IF seed_genome.baseModel.t = "absent" THEN "gpt-5-mini"
                   ELSE seed_genome.baseModel.s,
     systemPrompt |-> policy.systemPrompt,
     responseStyle |-> policy.responseStyle,
     toolPreferences |-> policy.toolPreferences,
     toolRetryBudget |-> policy.toolRetryBudget,
     deliberationBudget |-> policy.deliberationBudget,
     memoryDepth |-> policy.memoryDepth,
     safeguards |-> policy.safeguards,
     mutationTrace |-> <<"python-sidecar-gepa">>]

\* An attribute of the optimizer's result: absent, a list of items, or
\* another value.  An item is a dict (with optional best_score and score
\* keys) or something else.
NoAttr == [t |-> "absent", v |-> <<>>]
HistoryItem(kind, best_score, score) ==
    [t |-> kind, best_score |-> best_score, score |-> score]

\* item.get("best_score", item.get("score")) for a dict, None otherwise.
item_best_score(item) ==
    IF item.t # "dict" THEN Absent
    ELSE IF item.best_score.t # "absent" THEN item.best_score
    ELSE item.score

history_of(value) ==
    [i \in 1..Len(value) |->
        [generation |-> i, bestScore |-> item_best_score(value[i])]]

extract_history(result) ==
    IF result.history.t = "list" THEN history_of(result.history.v)
    ELSE IF result.step_history.t = "list" THEN history_of(result.step_history.v)
    ELSE IF result.timeline.t = "list" THEN history_of(result.timeline.v)
    ELSE <<>>

\* ------------------------------------------------------------------------
\* The train/validation split of evolve.
\* ------------------------------------------------------------------------
SplitThreshold == 25

\* Mutant: the split rounds 20% up.
split_size_ceil(n) == IF (n + 4) \div 5 < 1 THEN 1 ELSE (n + 4) \div 5

\* max(1, int(len(trainset) * 0.2))
split_size(n) == IF (n * 2) \div 10 < 1 THEN 1 ELSE (n * 2) \div 10

\* Mutant: the split starts at 5 trajectories, not at SplitThreshold.
split_valset_from_five(trajectories, outer_holdout_applied) ==
    LET n == Len(trajectories)
        split == split_size(n)
    IN  IF outer_holdout_applied \/ n < 5 THEN trajectories
        ELSE SubSeq(trajectories, n - split + 1, n)

split_valset(trajectories, outer_holdout_applied) ==
    LET n == Len(trajectories)
        split == split_size(n)
    IN  IF outer_holdout_applied \/ n < SplitThreshold THEN trajectories
        ELSE IF n >= 5 THEN SubSeq(trajectories, n - split + 1, n)
        ELSE trajectories

split_trainset(trajectories, outer_holdout_applied) ==
    LET n == Len(trajectories)
        split == split_size(n)
    IN  IF outer_holdout_applied \/ n < SplitThreshold THEN trajectories
        ELSE IF n >= 5
        THEN IF n - split < 1 THEN trajectories
             ELSE SubSeq(trajectories, 1, n - split)
        ELSE trajectories

\* ------------------------------------------------------------------------
\* Bounds and input domains.
\* ------------------------------------------------------------------------
\* The longest trajectory list of a request, the longest batch an adapter
\* call is given directly, and the longest tool-call sequence enumerated.
MaxTraj == 27
MaxBatch == 2
MaxCalls == 2

RECURSIVE SeqsUpTo(_, _)
SeqsUpTo(S, n) ==
    IF n = 0 THEN {<<>>}
    ELSE LET shorter == SeqsUpTo(S, n - 1)
         IN  shorter \cup {Append(q, x) : q \in {r \in shorter : Len(r) = n - 1}, x \in S}

\* Seed genomes: no fields at all, an in-range genome, one whose fields lie
\* outside the documented bounds, and one whose budget is not a number.
Genome(obj, base_model, mutation_trace) ==
    [systemPrompt |-> obj.systemPrompt, responseStyle |-> obj.responseStyle,
     toolPreferences |-> obj.toolPreferences,
     toolRetryBudget |-> obj.toolRetryBudget,
     deliberationBudget |-> obj.deliberationBudget,
     memoryDepth |-> obj.memoryDepth, safeguards |-> obj.safeguards,
     baseModel |-> base_model, mutationTrace |-> mutation_trace]

DefaultGenome == Genome(EmptyObj, NoStr, <<>>)

PlainGenome ==
    Genome([systemPrompt |-> Str("be careful"), responseStyle |-> Str("concise"),
            toolPreferences |->
                Dict([k \in {"search", "shell"} |->
                         IF k = "search" THEN Num(R(3)) ELSE Num(R(1))]),
            toolRetryBudget |-> Num(R(2)), deliberationBudget |-> Num(R(4)),
            memoryDepth |-> Num(R(10)),
            safeguards |-> SafeguardsDict(Num(Rat(4, 10)), List(<<"shell">>))],
           Str("gpt-5"), <<"seeded">>)

WildGenome ==
    Genome([systemPrompt |-> Str("go"), responseStyle |-> Str("verbose"),
            toolPreferences |->
                Dict([k \in {"search", "shell"} |->
                         IF k = "search" THEN Num(R(0)) ELSE Num(R(-1))]),
            toolRetryBudget |-> Num(R(-2)), deliberationBudget |-> Num(R(50)),
            memoryDepth |-> Num(Rat(1001, 10)),
            safeguards |-> SafeguardsDict(Num(R(2)), NoList)],
           NoStr, <<"v1", "v2">>)

BrokenGenome ==
    [DefaultGenome EXCEPT !.deliberationBudget = Text]

SeedGenomes == {DefaultGenome, PlainGenome, WildGenome, BrokenGenome}

Weights(a, b, c, d, e) ==
    [success |-> a, satisfaction |-> b, safety |-> c, toolReliability |-> d,
     efficiency |-> e]

\* The (seed policy, objective weights) pairs adapters are constructed with.
AdapterConfigs ==
    {<<seed_policy_from_genome(DefaultGenome).policy, NoWeights>>,
     <<seed_policy_from_genome(PlainGenome).policy,
       Weights(Num(R(1)), Num(R(1)), Num(R(1)), Num(R(1)), Absent)>>,
     <<seed_policy_from_genome(WildGenome).policy,
       Weights(Num(R(-1)), Absent, Num(Rat(-1, 2)), Num(R(2)), Num(R(0)))>>}

\* Numbers a candidate supplies for the three integer fields and for
\* maxRiskScore: below, inside, between integers, and above the bounds.
IntInputs ==
    {Absent, Text}
    \cup {Num(r) : r \in {R(-3), Rat(1, 2), Rat(77, 10), R(13), R(65), R(1000)}}

RiskInputs ==
    {Absent, Text}
    \cup {Num(r) : r \in {R(-1), Rat(1, 50), Rat(1, 2), Rat(24, 25), R(3)}}

NumericObjs ==
    {[EmptyObj EXCEPT !.toolRetryBudget = a, !.deliberationBudget = b,
                      !.memoryDepth = c] :
        a \in IntInputs, b \in IntInputs, c \in IntInputs}
    \cup {[EmptyObj EXCEPT !.toolRetryBudget = a,
                           !.safeguards = SafeguardsDict(d, NoList)] :
            a \in IntInputs, d \in RiskInputs}

PrefInputs ==
    {NoDict, NotDict, Dict(<<>>),
     Dict([k \in {"search", "shell"} |->
              IF k = "search" THEN Num(R(3)) ELSE Num(R(1))]),
     Dict([k \in {"search", "shell"} |->
              IF k = "search" THEN Num(R(-1)) ELSE Num(R(0))]),
     Dict([k \in {"search"} |-> Text])}

SafeguardInputs ==
    {NoSafeguards, NotSafeguards, SafeguardsDict(Absent, NoList),
     SafeguardsDict(Num(R(2)), List(<<"rm">>)),
     SafeguardsDict(Text, NotList)}

StructObjs ==
    {[EmptyObj EXCEPT !.systemPrompt = a, !.responseStyle = b,
                      !.toolPreferences = c, !.safeguards = d] :
        a \in {NoStr, Str("terse"), NotStr("num")},
        b \in {NoStr, Str("detailed"), Str("verbose"), NotStr("list"),
               NotStr("num")},
        c \in PrefInputs, d \in SafeguardInputs}

\* Policies that satisfy every Policy invariant.
ValidPreferences ==
    {<<>>,
     [k \in {"search"} |-> R(1)],
     [k \in {"search", "shell"} |-> IF k = "search" THEN Rat(3, 4) ELSE Rat(1, 4)],
     [k \in {"search", "shell"} |-> IF k = "search" THEN R(0) ELSE R(1)]}

ValidPolicies ==
    {[systemPrompt |-> a, responseStyle |-> b, toolPreferences |-> c,
      toolRetryBudget |-> d, deliberationBudget |-> e, memoryDepth |-> f,
      safeguards |-> [maxRiskScore |-> g, disallowedTools |-> h]] :
        a \in {"", "plan first"}, b \in ResponseStyles, c \in ValidPreferences,
        d \in {0, 8}, e \in {1, 12}, f \in {1, 64},
        g \in {Rat(5, 100), Rat(95, 100)},
        h \in {<<>>, <<"shell">>}}

Candidate(payload) == [policy_json |-> payload]

BrokenPayloads ==
    {Payload(k, EmptyObj) : k \in {"missing", "empty", "invalid", "nonobject"}}

\* The candidates _parse_policy is called with on its own.
ParseCandidates ==
    {Candidate(p) : p \in BrokenPayloads}
    \cup {Candidate(Payload("object", o)) : o \in NumericObjs \cup StructObjs}
    \cup {Candidate(JsonDumps(p)) : p \in ValidPolicies}

\* The candidates evaluate is called with.
EvalObjs ==
    {EmptyObj,
     [EmptyObj EXCEPT !.responseStyle = Str("detailed"),
                      !.deliberationBudget = Num(R(1)),
                      !.memoryDepth = Num(R(1))],
     [EmptyObj EXCEPT !.toolPreferences =
                          Dict([k \in {"search"} |-> Num(R(1))]),
                      !.safeguards = SafeguardsDict(Num(Rat(1, 10)), NoList)]}

EvalCandidates ==
    {Candidate(Payload(k, EmptyObj)) : k \in {"empty", "invalid", "nonobject"}}
    \cup {Candidate(Payload("object", o)) : o \in EvalObjs}

\* Trajectories.
ToolCall(name, success, risk) ==
    [toolName |-> name, success |-> success, riskScore |-> risk]

ToolCalls ==
    {ToolCall("search", TRUE, Rat(3, 10)), ToolCall("search", FALSE, R(2)),
     ToolCall("browser", TRUE, R(2)), ToolCall("browser", FALSE, Rat(3, 10))}

Trajectory(id, success, feedback, incidents, cost, latency, calls) ==
    [id |-> id, success |-> success, userFeedback |-> feedback,
     safetyIncidents |-> incidents, costUsd |-> cost, latencyMs |-> latency,
     toolCalls |-> calls]

\* Every tool-call sequence up to MaxCalls, on one fixed outcome.
ToolTrajectories ==
    {Trajectory(0, TRUE, R(1), R(0), Num(Rat(3, 100)), Absent, c) :
        c \in SeqsUpTo(ToolCalls, MaxCalls)}

\* Every combination of the scalar telemetry, in and out of range.
ScalarTrajectories ==
    {Trajectory(0, s, f, i, c, l, <<>>) :
        s \in BOOLEAN, f \in {R(-2), Rat(1, 2), R(3)},
        i \in {R(-1), R(1), R(4)},
        c \in {Absent, Text, Num(R(-1)), Num(Rat(3, 100))},
        l \in {Num(R(5000)), Num(R(50000))}}

\* The trajectories longer batches and requests are built from.
TrajPool ==
    <<Trajectory(0, TRUE, R(1), R(0), Num(Rat(3, 100)), Num(R(5000)), <<>>),
      Trajectory(0, FALSE, Rat(-1, 2), R(2), Absent, Num(R(30000)),
                 <<ToolCall("search", TRUE, Rat(2, 10)),
                   ToolCall("shell", FALSE, Rat(9, 10))>>),
      Trajectory(0, TRUE, R(0), R(0), Text, Absent,
                 <<ToolCall("browser", TRUE, R(0))>>),
      Trajectory(0, FALSE, R(-1), R(5), Num(R(1)), Num(R(90000)),
                 <<ToolCall("shell", FALSE, R(1))>>)>>

\* The trajectory list of a request with n trajectories, ids 1..n.
Trajectories(n) ==
    [i \in 1..n |-> [TrajPool[((i - 1) % Len(TrajPool)) + 1] EXCEPT !.id = i]]

Batches ==
    {<<t>> : t \in ToolTrajectories \cup ScalarTrajectories}
    \cup {SubSeq(Trajectories(MaxBatch + Len(TrajPool)), i, i + k - 1) :
            i \in 1..Len(TrajPool), k \in 0..MaxBatch}

\* ------------------------------------------------------------------------
\* State.
\* ------------------------------------------------------------------------
VARIABLES
    pc,                 \* where the /v1/evolve handler is, or "adapter"
    request,            \* the EvolveRequest being served
    seed_policy,        \* adapter.seed_policy
    objective_weights,  \* adapter.objective_weights
    trainset,           \* the training set given to the optimizer
    valset,             \* the validation set given to the optimizer
    seed_candidate,     \* the encoded seed policy
    call,               \* the adapter call made last and its arguments
    decoded,            \* what _parse_policy returned in that call
    eval_batch,         \* what evaluate returned in that call
    result,             \* what gepa.optimize returned
    response            \* the HTTP response of the handler


adapter_vars == <<seed_policy, objective_weights>>
run_vars == <<pc, request, trainset, valset, seed_candidate, result, response>>

NoCall ==
    [op |-> "none", batch |-> <<>>,
     candidate |-> Candidate(Payload("missing", EmptyObj)),
     capture_traces |-> FALSE]

NoDecode == Returned(NoPolicy, NoError)

NoRequest ==
    [authorized |-> TRUE, seedGenome |-> DefaultGenome, trajectories |-> <<>>,
     outerHoldoutApplied |-> FALSE, objectiveWeights |-> NoWeights]

NoResult ==
    [best_candidate |-> [t |-> "absent", v |-> Candidate(Payload("missing", EmptyObj))],
     history |-> NoAttr, step_history |-> NoAttr, timeline |-> NoAttr]

NoResponse ==
    [status |-> 0, detail |-> "", cause |-> "", champion |-> NoGenome,
     championEvaluation |->
         [objectives |->
              [successRate |-> R(0), satisfaction |-> R(0), safety |-> R(0),
               toolReliability |-> R(0), efficiency |-> R(0)],
          aggregateScore |-> R(0)],
     history |-> <<>>, trajectoryCount |-> 0]

\* ------------------------------------------------------------------------
\* State of concurrent adapter calls: the objects the calls allocate and
\* mutate, and each calling thread's position and locals.
\* ------------------------------------------------------------------------
NThreads == 2
Threads == 1..NThreads

\* Address 0 holds the object adapter.seed_policy refers to; address t holds
\* what thread t allocates.
SeedAddr == 0
Addrs == 0..NThreads
NoAddr == -1

VARIABLES
    policies,   \* policy dict objects by address; safeguards is an address
    guards,     \* safeguards dict objects by address
    threads     \* each thread's position in its call and its locals

thread_vars == <<policies, guards, threads>>

FreePolicy == [NoPolicy EXCEPT !.safeguards = NoAddr]
FreeGuards == NoPolicy.safeguards

IdleThread ==
    [pc |-> "idle", op |-> "none",
     candidate |-> Candidate(Payload("missing", EmptyObj)),
     capture_traces |-> FALSE, policy |-> NoAddr, parse_error |-> NoError,
     exc |-> "", out |-> NoBatch]

NoThreads ==
    /\ policies = [a \in Addrs |-> FreePolicy]
    /\ guards = [a \in Addrs |-> FreeGuards]
    /\ threads = [t \in Threads |-> IdleThread]

\* ------------------------------------------------------------------------
\* State of a dashboard session: st.session_state's force-run keys, the
\* subprocesses the session started, the clock and the last return value.
\* ------------------------------------------------------------------------
VARIABLES
    session,    \* force_proc, force_log_path, force_started_at, force_result, force_cmd
    procs,      \* the subprocesses by pid: status, exit code, command, log
    files,      \* the text of the log file of each path
    clock,      \* time.time(), in ticks
    reply       \* what the last start or poll returned

dash_vars == <<session, procs, files, clock, reply>>

MaxProcs == 3
MaxClock == 3
Pids == 1..MaxProcs

\* None is 0 for a pid, a time and a log path (times start at 1), <<>> for a
\* command.
NoCmd == <<>>
NoForceResult ==
    [state |-> "None", exit_code |-> 0, payload |-> "None", log |-> "",
     log_path |-> 0]

NoSession ==
    [force_proc |-> 0, force_log_path |-> 0, force_started_at |-> 0,
     force_result |-> NoForceResult, force_cmd |-> NoCmd]

\* A log path is the time it is named after: force_run_<ms>.log.
Paths == 1..MaxClock

Unborn == [status |-> "unborn", exit_code |-> 0, log_path |-> 0]
\* A subprocess that exited and that the session no longer refers to.
Reaped == [status |-> "reaped", exit_code |-> 0, log_path |-> 0]

NoReply ==
    [op |-> "none", ok |-> FALSE, message |-> "", state |-> "None", pid |-> 0,
     started_at |-> 0, cmd |-> NoCmd, exit_code |-> 0, payload |-> "None",
     log |-> "", log_path |-> 0]

NoDashboard ==
    /\ session = NoSession
    /\ procs = [p \in Pids |-> Unborn]
    /\ files = [f \in Paths |-> "<no file>"]
    /\ clock = 1
    /\ reply = NoReply

sidecar_vars ==
    <<pc, request, seed_policy, objective_weights, trainset, valset,
      seed_candidate, call, decoded, eval_batch, result, response>>

vars ==
    <<pc, request, seed_policy, objective_weights, trainset, valset,
      seed_candidate, call, decoded, eval_batch, result, response,
      policies, guards, threads, session, procs, files, clock, reply>>

\* ------------------------------------------------------------------------
\* The adapter's operations.
\* ------------------------------------------------------------------------
\* adapter._parse_policy(candidate): the call and the values it returns.
ParsePolicy(candidate) ==
    /\ call.op = "none"
    /\ call' = [op |-> "_parse_policy", batch |-> <<>>,
                candidate |-> candidate, capture_traces |-> FALSE]
    /\ decoded' = _parse_policy(seed_policy, candidate)
    /\ eval_batch' = NoBatch
    /\ UNCHANGED <<adapter_vars, run_vars>>
    /\ UNCHANGED <<thread_vars, dash_vars>>

\* adapter.evaluate(batch, candidate, capture_traces): the call, the policy
\* it decoded and the EvaluationBatch it returns.
Evaluate(batch, candidate, capture_traces) ==
    /\ call.op = "none"
    /\ call' = [op |-> "evaluate", batch |-> batch, candidate |-> candidate,
                capture_traces |-> capture_traces]
    /\ decoded' = _parse_policy(seed_policy, candidate)
    /\ eval_batch' = evaluate(seed_policy, objective_weights, batch, candidate,
                              capture_traces)
    /\ UNCHANGED <<adapter_vars, run_vars>>
    /\ UNCHANGED <<thread_vars, dash_vars>>

\* The caller takes the returned value: the call's locals are gone and the
\* adapter is left with its two fields.
Return ==
    /\ pc \in {"adapter", "optimizing"}
    /\ call.op # "none"
    /\ call' = NoCall
    /\ decoded' = NoDecode
    /\ eval_batch' = NoBatch
    /\ UNCHANGED <<adapter_vars, run_vars>>
    /\ UNCHANGED <<thread_vars, dash_vars>>

\* An adapter on its own: OpenClawTelemetryAdapter(seed_policy, weights).
InitAdapter ==
    /\ pc = "adapter"
    /\ request = NoRequest
    /\ \E a \in AdapterConfigs :
          /\ seed_policy = a[1]
          /\ objective_weights = objective_defaults(a[2])
    /\ trainset = <<>>
    /\ valset = <<>>
    /\ seed_candidate = Candidate(Payload("missing", EmptyObj))
    /\ call = NoCall
    /\ decoded = NoDecode
    /\ eval_batch = NoBatch
    /\ result = NoResult
    /\ response = NoResponse
    /\ NoThreads
    /\ NoDashboard

AdapterParse ==
    /\ pc = "adapter"
    /\ \E c \in ParseCandidates : ParsePolicy(c)

AdapterEvaluate ==
    /\ pc = "adapter"
    /\ \E b \in Batches, c \in EvalCandidates, t \in BOOLEAN : Evaluate(b, c, t)

NextAdapter == AdapterParse \/ AdapterEvaluate \/ Return

SpecAdapter == InitAdapter /\ [][NextAdapter]_vars

\* ------------------------------------------------------------------------
\* The /v1/evolve handler.
\* ------------------------------------------------------------------------
Requests ==
    {[authorized |-> a, seedGenome |-> g[1], trajectories |-> Trajectories(n),
      outerHoldoutApplied |-> h, objectiveWeights |-> g[2]] :
        a \in BOOLEAN, n \in 0..MaxTraj, h \in BOOLEAN,
        g \in {<<DefaultGenome, NoWeights>>,
               <<PlainGenome,
                 Weights(Num(R(1)), Num(R(1)), Num(R(1)), Num(R(1)), Absent)>>,
               <<WildGenome, NoWeights>>,
               <<BrokenGenome, NoWeights>>}}

\* Candidates the optimizer proposes besides the seed candidate.
ProposedCandidates ==
    {Candidate(Payload("invalid", EmptyObj)),
     Candidate(Payload("object",
         [EmptyObj EXCEPT !.responseStyle = Str("detailed"),
                          !.memoryDepth = Num(R(200))]))}

\* best_candidate of the optimizer's result: no such attribute, a value that
\* is not a dict, or a dict.
BestCandidates(seed) ==
    {[t |-> "absent", v |-> seed], [t |-> "other", v |-> seed]}
    \cup {[t |-> "dict", v |-> c] :
            c \in ProposedCandidates
                  \cup {seed, Candidate(Payload("missing", EmptyObj)),
                        Candidate(Payload("nonobject", EmptyObj))}}

HistoryAttrs ==
    {NoAttr, [t |-> "other", v |-> <<>>],
     [t |-> "list",
      v |-> <<HistoryItem("dict", Num(Rat(1, 2)), Absent),
              HistoryItem("dict", Absent, Num(Rat(3, 4))),
              HistoryItem("other", Absent, Absent)>>],
     [t |-> "list",
      v |-> <<HistoryItem("dict", Num(Rat(1, 4)), Num(R(1))),
              HistoryItem("dict", Absent, Absent)>>]}

\* The results gepa.optimize returns: every best_candidate without a
\* history, and every history with the seed as best candidate.
Results(seed) ==
    {[best_candidate |-> b, history |-> NoAttr, step_history |-> NoAttr,
      timeline |-> NoAttr] : b \in BestCandidates(seed)}
    \cup {[best_candidate |-> [t |-> "dict", v |-> seed], history |-> h,
           step_history |-> NoAttr, timeline |-> NoAttr] : h \in HistoryAttrs}
    \cup {[best_candidate |-> [t |-> "absent", v |-> seed],
           history |-> [t |-> "other", v |-> <<>>],
           step_history |-> h, timeline |-> [t |-> "list", v |-> <<>>]] :
            h \in HistoryAttrs}

ErrorResponse(status, detail) ==
    [NoResponse EXCEPT !.status = status, !.detail = detail]

\* The messages of the exceptions dspy.LM and gepa.optimize raise.
Exceptions == {"exc: unknown model", "exc: budget exhausted"}

\* HTTPException(status, f"{detail}: {exc}") raised from exc.
ErrorFrom(status, detail, exc) ==
    [NoResponse EXCEPT !.status = status, !.detail = detail, !.cause = exc]

InitRun ==
    /\ pc = "received"
    /\ request \in Requests
    /\ seed_policy = NoPolicy
    /\ objective_weights = objective_defaults(NoWeights)
    /\ trainset = <<>>
    /\ valset = <<>>
    /\ seed_candidate = Candidate(Payload("missing", EmptyObj))
    /\ call = NoCall
    /\ decoded = NoDecode
    /\ eval_batch = NoBatch
    /\ result = NoResult
    /\ response = NoResponse
    /\ NoThreads
    /\ NoDashboard

adapter_idle == <<call, decoded, eval_batch>>

\* require_auth and the trajectory-count check reject the request.
Reject ==
    /\ pc = "received"
    /\ ~request.authorized \/ Len(request.trajectories) < 1
    /\ response' = IF ~request.authorized
                   THEN ErrorResponse(401, "Unauthorized sidecar token")
                   ELSE ErrorResponse(400, "At least one trajectory is required")
    /\ pc' = "failed"
    /\ UNCHANGED <<request, adapter_vars, trainset, valset, seed_candidate,
                   adapter_idle, result>>
    /\ UNCHANGED <<thread_vars, dash_vars>>

\* seed_policy_from_genome raises: the handler ends with an unhandled
\* exception, which the framework answers with status 500.
SeedCrash ==
    /\ pc = "received"
    /\ request.authorized
    /\ Len(request.trajectories) >= 1
    /\ seed_policy_from_genome(request.seedGenome).raised
    /\ response' = ErrorResponse(500, "Internal Server Error")
    /\ pc' = "failed"
    /\ UNCHANGED <<request, adapter_vars, trainset, valset, seed_candidate,
                   adapter_idle, result>>
    /\ UNCHANGED <<thread_vars, dash_vars>>

\* Mutant: the handler builds the seed policy and the adapter without having
\* checked the number of trajectories.
PrepareUnchecked ==
    /\ pc = "received"
    /\ request.authorized
    /\ ~seed_policy_from_genome(request.seedGenome).raised
    /\ seed_policy' = seed_policy_from_genome(request.seedGenome).policy
    /\ objective_weights' = objective_defaults(request.objectiveWeights)
    /\ trainset' = split_trainset(request.trajectories, request.outerHoldoutApplied)
    /\ valset' = split_valset(request.trajectories, request.outerHoldoutApplied)
    /\ seed_candidate' = Candidate(JsonDumps(seed_policy'))
    /\ pc' = "reflection_lm"
    /\ UNCHANGED <<request, adapter_idle, result, response>>
    /\ UNCHANGED <<thread_vars, dash_vars>>

\* Seed policy, objective weights, adapter, split and seed candidate.
Prepare ==
    /\ pc = "received"
    /\ request.authorized
    /\ Len(request.trajectories) >= 1
    /\ ~seed_policy_from_genome(request.seedGenome).raised
    /\ seed_policy' = seed_policy_from_genome(request.seedGenome).policy
    /\ objective_weights' = objective_defaults(request.objectiveWeights)
    /\ trainset' = split_trainset(request.trajectories, request.outerHoldoutApplied)
    /\ valset' = split_valset(request.trajectories, request.outerHoldoutApplied)
    /\ seed_candidate' = Candidate(JsonDumps(seed_policy'))
    /\ pc' = "reflection_lm"
    /\ UNCHANGED <<request, adapter_idle, result, response>>
    /\ UNCHANGED <<thread_vars, dash_vars>>

\* dspy.LM(reflection_model) returns.
ReflectionLmReady ==
    /\ pc = "reflection_lm"
    /\ pc' = "optimizing"
    /\ UNCHANGED <<request, adapter_vars, trainset, valset, seed_candidate,
                   adapter_idle, result, response>>
    /\ UNCHANGED <<thread_vars, dash_vars>>

\* dspy.LM(reflection_model) raises.
ReflectionLmFails ==
    /\ pc = "reflection_lm"
    /\ \E exc \in Exceptions :
          response' = ErrorFrom(400, "Failed to initialize reflection LM", exc)
    /\ pc' = "failed"
    /\ UNCHANGED <<request, adapter_vars, trainset, valset, seed_candidate,
                   adapter_idle, result>>
    /\ UNCHANGED <<thread_vars, dash_vars>>

\* A minibatch of the training set, or the whole validation set.
OptimizerBatches ==
    {valset}
    \cup {SubSeq(trainset, i,
                 IF i + MaxBatch - 1 > Len(trainset) THEN Len(trainset)
                 ELSE i + MaxBatch - 1) : i \in 1..Len(trainset)}

\* gepa.optimize calls adapter.evaluate.
OptimizerEvaluates ==
    /\ pc = "optimizing"
    /\ \E b \in OptimizerBatches,
          c \in ProposedCandidates \cup {seed_candidate},
          t \in BOOLEAN : Evaluate(b, c, t)

\* gepa.optimize returns a result.
OptimizeReturns ==
    /\ pc = "optimizing"
    /\ call.op = "none"
    /\ result' \in Results(seed_candidate)
    /\ pc' = "optimized"
    /\ UNCHANGED <<request, adapter_vars, trainset, valset, seed_candidate,
                   adapter_idle, response>>
    /\ UNCHANGED <<thread_vars, dash_vars>>

\* Mutant: the exception of gepa.optimize is recorded and the handler goes on
\* to the final evaluation with an empty result.
OptimizeFailsSwallowed ==
    /\ pc = "optimizing"
    /\ call.op = "none"
    /\ \E exc \in Exceptions :
          response' = ErrorFrom(500, "GEPA optimization failed", exc)
    /\ pc' = "optimized"
    /\ UNCHANGED <<request, adapter_vars, trainset, valset, seed_candidate,
                   adapter_idle, result>>
    /\ UNCHANGED <<thread_vars, dash_vars>>

\* gepa.optimize raises.
OptimizeFails ==
    /\ pc = "optimizing"
    /\ call.op = "none"
    /\ \E exc \in Exceptions :
          response' = ErrorFrom(500, "GEPA optimization failed", exc)
    /\ pc' = "failed"
    /\ UNCHANGED <<request, adapter_vars, trainset, valset, seed_candidate,
                   adapter_idle, result>>
    /\ UNCHANGED <<thread_vars, dash_vars>>

\* getattr(result, "best_candidate", seed_candidate), replaced by the seed
\* candidate when it is not a dict.
best_candidate_of(optimizer_result, seed) ==
    IF optimizer_result.best_candidate.t = "dict"
    THEN optimizer_result.best_candidate.v
    ELSE seed

champion_eval(batch) ==
    [objectives |->
         [successRate |-> mean(batch.objective_scores.successRate),
          satisfaction |-> mean(batch.objective_scores.satisfaction),
          safety |-> mean(batch.objective_scores.safety),
          toolReliability |-> mean(batch.objective_scores.toolReliability),
          efficiency |-> mean(batch.objective_scores.efficiency)],
     aggregateScore |-> mean(batch.scores)]

\* The response of a run whose final evaluation returned.
success_response(req, optimizer_result, final_batch, best_policy) ==
    [status |-> 200, detail |-> "", cause |-> "",
     champion |-> genome_from_policy(req.seedGenome, best_policy),
     championEvaluation |-> champion_eval(final_batch),
     history |-> extract_history(optimizer_result),
     trajectoryCount |-> Len(req.trajectories)]

\* The final evaluation over the validation set, the champion and the
\* response; an exception of the final evaluation is not handled.
Finalize ==
    /\ pc = "optimized"
    /\ call' = [op |-> "evaluate", batch |-> valset,
                candidate |-> best_candidate_of(result, seed_candidate),
                capture_traces |-> FALSE]
    /\ decoded' = _parse_policy(seed_policy, call'.candidate)
    /\ eval_batch' = evaluate_decoded(decoded', objective_weights, valset, FALSE)
    /\ IF decoded'.raised
       THEN /\ response' = ErrorResponse(500, "Internal Server Error")
            /\ pc' = "failed"
       ELSE /\ response' = success_response(request, result, eval_batch',
                                            decoded'.policy)
            /\ pc' = "done"
    /\ UNCHANGED <<request, adapter_vars, trainset, valset, seed_candidate, result>>
    /\ UNCHANGED <<thread_vars, dash_vars>>

Next ==
    \/ Reject
    \/ SeedCrash
    \/ Prepare
    \/ ReflectionLmReady
    \/ ReflectionLmFails
    \/ OptimizerEvaluates
    \/ Return
    \/ OptimizeReturns
    \/ OptimizeFails
    \/ Finalize

Spec == InitRun /\ [][Next]_vars

\* ------------------------------------------------------------------------
\* Concurrent calls on one adapter.  Each thread runs _parse_policy or
\* evaluate one statement that touches a shared or heap object at a time;
\* the threads' steps interleave freely.
\* ------------------------------------------------------------------------
\* The policy value stored at an address.
policy_at(pols, grds, a) ==
    [pols[a] EXCEPT !.safeguards = grds[pols[a].safeguards]]

\* Mutant: copy.copy, the new dict shares the nested safeguards dict.
shallow_copy(pols, grds, src, dst) ==
    [policies |-> [pols EXCEPT ![dst] = pols[src]],
     guards |-> grds]

\* copy.deepcopy(self.seed_policy): a new policy dict at dst with a new
\* safeguards dict of its own.
deepcopy(pols, grds, src, dst) ==
    [policies |-> [pols EXCEPT ![dst] = [pols[src] EXCEPT !.safeguards = dst]],
     guards |-> [grds EXCEPT ![dst] = grds[pols[src].safeguards]]]

\* The calls the threads make: the operation, the candidate and
\* capture_traces.
ThreadObjA ==
    [systemPrompt |-> Str("plan first"), responseStyle |-> Str("detailed"),
     toolPreferences |-> Dict([k \in {"browser"} |-> Num(R(2))]),
     toolRetryBudget |-> Num(R(9)), deliberationBudget |-> Num(R(3)),
     memoryDepth |-> Text,
     safeguards |-> SafeguardsDict(Num(Rat(1, 10)), List(<<"shell", "rm">>))]

ThreadObjB ==
    [EmptyObj EXCEPT !.responseStyle = Str("loud"),
                     !.memoryDepth = Num(R(32)),
                     !.safeguards = SafeguardsDict(Num(R(1)), NotList)]

ThreadObjC ==
    [EmptyObj EXCEPT !.systemPrompt = Str("x"),
                     !.toolPreferences = Dict([k \in {"search"} |-> Text])]

ThreadCalls ==
    {<<"evaluate", Candidate(Payload("object", ThreadObjA)), TRUE>>,
     <<"evaluate", Candidate(Payload("invalid", EmptyObj)), FALSE>>,
     <<"_parse_policy", Candidate(Payload("object", ThreadObjB)), FALSE>>,
     <<"_parse_policy", Candidate(Payload("object", ThreadObjC)), FALSE>>}

\* The batch the threads evaluate.
ThreadBatch == Trajectories(2)

\* The statements of _parse_policy after the copy, in order.
NextField ==
    [systemPrompt |-> "responseStyle", responseStyle |-> "toolPreferences",
     toolPreferences |-> "toolRetryBudget",
     toolRetryBudget |-> "deliberationBudget",
     deliberationBudget |-> "memoryDepth", memoryDepth |-> "maxRiskScore",
     maxRiskScore |-> "disallowedTools", disallowedTools |-> "parsed"]

InitThreads ==
    /\ pc = "threads"
    /\ request = NoRequest
    /\ \E a \in AdapterConfigs :
          /\ seed_policy = a[1]
          /\ objective_weights = objective_defaults(a[2])
    /\ trainset = <<>>
    /\ valset = <<>>
    /\ seed_candidate = Candidate(Payload("missing", EmptyObj))
    /\ call = NoCall
    /\ decoded = NoDecode
    /\ eval_batch = NoBatch
    /\ result = NoResult
    /\ response = NoResponse
    /\ policies = [a \in Addrs |->
                      IF a = SeedAddr
                      THEN [seed_policy EXCEPT !.safeguards = SeedAddr]
                      ELSE FreePolicy]
    /\ guards = [a \in Addrs |->
                    IF a = SeedAddr THEN seed_policy.safeguards ELSE FreeGuards]
    /\ threads = [t \in Threads |-> IdleThread]
    /\ NoDashboard

\* One heap-writing statement of _parse_policy on the policy at address a:
\* the objects after it, or the exception it raises.
assigned(pols, grds) == [raised |-> FALSE, exc |-> "", policies |-> pols, guards |-> grds]
assign_raised(pols, grds, exc) ==
    [raised |-> TRUE, exc |-> exc, policies |-> pols, guards |-> grds]

assign(field, parsed, pols, grds, a) ==
    LET own == pols[a]
        g == own.safeguards
    IN  CASE field = "systemPrompt" ->
               IF parsed.systemPrompt.t = "str"
               THEN assigned([pols EXCEPT ![a].systemPrompt = parsed.systemPrompt.s], grds)
               ELSE assigned(pols, grds)
          [] field = "responseStyle" ->
               IF parsed.responseStyle.t = "list"
               THEN assign_raised(pols, grds, "TypeError")
               ELSE IF parsed.responseStyle.t = "str"
                       /\ parsed.responseStyle.s \in ResponseStyles
               THEN assigned([pols EXCEPT ![a].responseStyle = parsed.responseStyle.s], grds)
               ELSE assigned(pols, grds)
          [] field = "toolPreferences" ->
               IF parsed.toolPreferences.t # "dict" THEN assigned(pols, grds)
               ELSE IF normalize_tool_preferences(parsed.toolPreferences.w).raised
               THEN assign_raised(pols, grds, "ValueError")
               ELSE assigned([pols EXCEPT ![a].toolPreferences =
                                 normalize_tool_preferences(parsed.toolPreferences.w).value],
                             grds)
          [] field = "toolRetryBudget" ->
               assigned([pols EXCEPT ![a].toolRetryBudget =
                            safe_int(parsed.toolRetryBudget, own.toolRetryBudget, 0, 8)],
                        grds)
          [] field = "deliberationBudget" ->
               assigned([pols EXCEPT ![a].deliberationBudget =
                            safe_int(parsed.deliberationBudget,
                                     own.deliberationBudget, 1, 12)],
                        grds)
          [] field = "memoryDepth" ->
               assigned([pols EXCEPT ![a].memoryDepth =
                            safe_int(parsed.memoryDepth, own.memoryDepth, 1, 64)],
                        grds)
          [] field = "maxRiskScore" ->
               assigned(pols,
                        [grds EXCEPT ![g].maxRiskScore =
                            parse_max_risk(parsed.safeguards, grds[g].maxRiskScore)])
          [] field = "disallowedTools" ->
               assigned(pols,
                        [grds EXCEPT ![g].disallowedTools =
                            parse_disallowed(parsed.safeguards,
                                             grds[g].disallowedTools)])

\* A thread calls adapter._parse_policy(candidate) or
\* adapter.evaluate(batch, candidate, capture_traces).
ThreadCall ==
    /\ pc = "threads"
    /\ \E t \in Threads, c \in ThreadCalls :
          /\ threads[t].pc = "idle"
          /\ threads' = [threads EXCEPT ![t] =
                 [IdleThread EXCEPT !.pc = "copy", !.op = c[1],
                                    !.candidate = c[2], !.capture_traces = c[3]]]
    /\ UNCHANGED <<sidecar_vars, policies, guards, dash_vars>>

\* policy = copy.deepcopy(self.seed_policy), the payload checks and
\* json.loads.
ThreadCopy ==
    /\ pc = "threads"
    /\ \E t \in Threads :
          LET h == deepcopy(policies, guards, SeedAddr, t)
              kind == threads[t].candidate.policy_json.kind
          IN  /\ threads[t].pc = "copy"
              /\ policies' = h.policies
              /\ guards' = h.guards
              /\ threads' = [threads EXCEPT
                     ![t].policy = t,
                     ![t].parse_error =
                         IF kind = "invalid" THEN ParseErrorText ELSE NoError,
                     ![t].exc = IF kind = "nonobject" THEN "AttributeError" ELSE "",
                     ![t].pc = CASE kind \in {"missing", "empty", "invalid"} -> "parsed"
                                 [] kind = "nonobject" -> "raised"
                                 [] OTHER -> "systemPrompt"]
    /\ UNCHANGED <<sidecar_vars, dash_vars>>

\* The next assignment to the thread's policy.
ThreadAssign ==
    /\ pc = "threads"
    /\ \E t \in Threads :
          /\ threads[t].pc \in DOMAIN NextField
          /\ LET r == assign(threads[t].pc, threads[t].candidate.policy_json.obj,
                             policies, guards, threads[t].policy)
             IN  /\ policies' = r.policies
                 /\ guards' = r.guards
                 /\ threads' = [threads EXCEPT
                        ![t].exc = r.exc,
                        ![t].pc = IF r.raised THEN "raised"
                                  ELSE NextField[threads[t].pc]]
    /\ UNCHANGED <<sidecar_vars, dash_vars>>

\* _parse_policy returns; evaluate goes through the batch with the policy
\* it decoded and builds the EvaluationBatch.
ThreadLoop ==
    /\ pc = "threads"
    /\ \E t \in Threads :
          /\ threads[t].pc = "parsed"
          /\ threads' = [threads EXCEPT
                 ![t].pc = "returned",
                 ![t].out =
                     IF threads[t].op = "_parse_policy" THEN NoBatch
                     ELSE evaluate_decoded(
                              Returned(policy_at(policies, guards, threads[t].policy),
                                       threads[t].parse_error),
                              objective_weights, ThreadBatch,
                              threads[t].capture_traces)]
    /\ UNCHANGED <<sidecar_vars, policies, guards, dash_vars>>

\* The caller is done with what the call returned or raised: the objects the
\* call allocated are garbage.
ThreadFinish ==
    /\ pc = "threads"
    /\ \E t \in Threads :
          /\ threads[t].pc \in {"returned", "raised"}
          /\ threads' = [threads EXCEPT ![t] = IdleThread]
          /\ policies' = [policies EXCEPT ![t] = FreePolicy]
          /\ guards' = [guards EXCEPT ![t] = FreeGuards]
    /\ UNCHANGED <<sidecar_vars, dash_vars>>

NextThreads ==
    ThreadCall \/ ThreadCopy \/ ThreadAssign \/ ThreadLoop \/ ThreadFinish

SpecThreads == InitThreads /\ [][NextThreads]_vars

\* ------------------------------------------------------------------------
\* The dashboard's force-run subprocess (streamlit_app.py).
\* ------------------------------------------------------------------------
DEFAULT_FORCE_TIMEOUT_MS == 120000

\* One argument of the command line: a flag with a number or a string.
Arg(flag, n, str) == [flag |-> flag, n |-> n, s |-> str]

\* str.strip() on the strings the form supplies.
strip(str) ==
    CASE str = " " -> ""
      [] str = " ws://gw " -> "ws://gw"
      [] OTHER -> str

Flag(flag, value) ==
    IF strip(value) # "" THEN <<Arg(flag, 0, strip(value))>> ELSE <<>>

_build_dashboard_cmd(force_run, generations, population_size, timeout_ms, url, token, password) ==
    <<Arg("node src/liveDashboard.js --json --once", 0, ""),
      Arg("--timeout-ms", timeout_ms, "")>>
    \o (IF force_run
        THEN <<Arg("--force-run", 0, ""),
               Arg("--generations", generations, ""),
               Arg("--population-size", population_size, ""),
               Arg("--timeout-ms",
                   IF timeout_ms > DEFAULT_FORCE_TIMEOUT_MS THEN timeout_ms
                   ELSE DEFAULT_FORCE_TIMEOUT_MS, "")>>
        ELSE <<>>)
    \o Flag("--url", url) \o Flag("--token", token)
    \o Flag("--password", password)

\* The command of a force run, as _start_force_run_subprocess builds it.
force_cmd_of(args) ==
    _build_dashboard_cmd(TRUE, args.generations, args.population_size,
                         IF args.timeout_ms > DEFAULT_FORCE_TIMEOUT_MS
                         THEN args.timeout_ms ELSE DEFAULT_FORCE_TIMEOUT_MS,
                         args.url, args.token, args.password)

\* What the form passes to a start.
ForceRunArgs ==
    {[generations |-> 6, population_size |-> 18, timeout_ms |-> 12000,
      url |-> " ", token |-> "", password |-> ""],
     [generations |-> 2, population_size |-> 4, timeout_ms |-> 300000,
      url |-> " ws://gw ", token |-> "t", password |-> ""]}

\* What a subprocess leaves in its log, with its exit code.
ProcessOutcomes ==
    {[exit_code |-> 0, log |-> "{json}"],
     [exit_code |-> 1, log |-> "text"],
     [exit_code |-> 0, log |-> "long text {json}"]}

_extract_json_blob(text) ==
    IF text \in {"{json}", "long text {json}"} THEN "payload" ELSE "None"

\* The last 30000 characters of a text.
_tail_text(text) == IF text = "long text {json}" THEN "g text {json}" ELSE text

\* proc.poll() is None
still_running(pid) == procs[pid].status = "running"

StartReply(ok, message, pid) ==
    [NoReply EXCEPT !.op = "start", !.ok = ok, !.message = message, !.pid = pid]

\* Mutant: the test of poll() is inverted.
start_refused_inverted(running_proc) ==
    running_proc # 0 /\ ~still_running(running_proc)

\* running_proc is not None and running_proc.poll() is None
start_refused(running_proc) ==
    running_proc # 0 /\ still_running(running_proc)

\* The pid of the next subprocess.
next_pid == CHOOSE p \in Pids :
                procs[p].status = "unborn"
                /\ \A q \in Pids : procs[q].status = "unborn" => p <= q

\* _start_force_run_subprocess: refused while the tracked subprocess runs;
\* otherwise the log file is opened for writing and Popen either raises or
\* returns the new subprocess, which the session then tracks.  An exited
\* subprocess the session stops referring to is reaped.
StartForceRun ==
    /\ pc = "dashboard"
    /\ \E args \in ForceRunArgs, popen_ok \in BOOLEAN :
          LET running_proc == session.force_proc
              log_path == clock
              cmd == force_cmd_of(args)
          IN  IF start_refused(running_proc)
              THEN /\ reply' = StartReply(FALSE, "A force-run is already in progress.", 0)
                   /\ UNCHANGED <<session, procs, files>>
              ELSE IF ~popen_ok \/ \A p \in Pids : procs[p].status # "unborn"
              THEN /\ files' = [files EXCEPT ![log_path] = ""]
                   /\ reply' = StartReply(FALSE, "Failed to start force-run subprocess", 0)
                   /\ UNCHANGED <<session, procs>>
              ELSE /\ files' = [files EXCEPT ![log_path] = ""]
                   /\ procs' = [q \in Pids |->
                                   IF q = next_pid
                                   THEN [status |-> "running", exit_code |-> 0,
                                         log_path |-> log_path]
                                   ELSE IF q = running_proc THEN Reaped
                                   ELSE procs[q]]
                   /\ session' = [force_proc |-> next_pid,
                                  force_log_path |-> log_path,
                                  force_started_at |-> clock,
                                  force_result |-> NoForceResult,
                                  force_cmd |-> cmd]
                   /\ reply' = StartReply(TRUE, "Started force-run", next_pid)
    /\ UNCHANGED <<sidecar_vars, thread_vars, clock>>

\* _poll_force_run_subprocess.
PollForceRun ==
    /\ pc = "dashboard"
    /\ \E read_ok \in BOOLEAN :
          LET proc == session.force_proc
              log_text == IF session.force_log_path # 0 /\ read_ok
                             /\ files[session.force_log_path] # "<no file>"
                          THEN files[session.force_log_path] ELSE ""
              force_result ==
                  [state |-> "finished", exit_code |-> procs[proc].exit_code,
                   payload |-> _extract_json_blob(log_text),
                   log |-> _tail_text(log_text),
                   log_path |-> session.force_log_path]
          IN  IF proc = 0
              THEN /\ reply' =
                         IF session.force_result.state # "None"
                         THEN [NoReply EXCEPT
                                  !.op = "poll",
                                  !.state = session.force_result.state,
                                  !.exit_code = session.force_result.exit_code,
                                  !.payload = session.force_result.payload,
                                  !.log = session.force_result.log,
                                  !.log_path = session.force_result.log_path]
                         ELSE [NoReply EXCEPT !.op = "poll", !.state = "idle"]
                   /\ UNCHANGED <<session, procs>>
              ELSE IF still_running(proc)
              THEN /\ reply' = [NoReply EXCEPT
                                   !.op = "poll", !.state = "running",
                                   !.pid = proc,
                                   !.started_at = session.force_started_at,
                                   !.cmd = session.force_cmd,
                                   !.log_path = session.force_log_path]
                   /\ UNCHANGED <<session, procs>>
              ELSE /\ session' = [session EXCEPT !.force_result = force_result,
                                                  !.force_proc = 0]
                   /\ procs' = [procs EXCEPT ![proc] = Reaped]
                   /\ reply' = [NoReply EXCEPT
                                   !.op = "poll", !.state = "finished",
                                   !.exit_code = force_result.exit_code,
                                   !.payload = force_result.payload,
                                   !.log = force_result.log,
                                   !.log_path = force_result.log_path]
    /\ UNCHANGED <<sidecar_vars, thread_vars, files, clock>>

\* A running subprocess writes its output to its log and exits.
ProcessExits ==
    /\ pc = "dashboard"
    /\ \E p \in Pids, o \in ProcessOutcomes :
          /\ procs[p].status = "running"
          /\ procs' = [procs EXCEPT ![p].status = "exited",
                                    ![p].exit_code = o.exit_code]
          /\ files' = [files EXCEPT ![procs[p].log_path] = o.log]
    /\ UNCHANGED <<sidecar_vars, thread_vars, session, clock, reply>>

\* Time passes.
Tick ==
    /\ pc = "dashboard"
    /\ clock < MaxClock
    /\ clock' = clock + 1
    /\ UNCHANGED <<sidecar_vars, thread_vars, session, procs, files, reply>>

InitDashboard ==
    /\ pc = "dashboard"
    /\ request = NoRequest
    /\ seed_policy = NoPolicy
    /\ objective_weights = objective_defaults(NoWeights)
    /\ trainset = <<>>
    /\ valset = <<>>
    /\ seed_candidate = Candidate(Payload("missing", EmptyObj))
    /\ call = NoCall
    /\ decoded = NoDecode
    /\ eval_batch = NoBatch
    /\ result = NoResult
    /\ response = NoResponse
    /\ NoThreads
    /\ NoDashboard

NextDashboard == StartForceRun \/ PollForceRun \/ ProcessExits \/ Tick

SpecDashboard == InitDashboard /\ [][NextDashboard]_vars

\* ------------------------------------------------------------------------
\* Properties.
\* ------------------------------------------------------------------------
payload_kind == call.candidate.policy_json.kind
parsed_obj == call.candidate.policy_json.obj
decode_returned == call.op # "none" /\ ~decoded.raised
evaluate_returned == call.op = "evaluate" /\ ~eval_batch.raised

\* C1: decoding never throws: whatever the candidate's payload (empty, not
\* JSON, JSON that is not an object, an object with fields of the wrong
\* type), _parse_policy returns a (policy, parseError) pair, and so evaluate
\* on that candidate returns a result too.
C1_DecodeNeverThrows == ~decoded.raised /\ ~eval_batch.raised

\* C2: an empty, missing or unparseable payload decodes to the seed policy,
\* field for field, and the parse error is set exactly when the payload is
\* non-empty and fails to parse.
C2_FallbackIsSeed ==
    /\ (call.op # "none" /\ payload_kind \in {"missing", "empty", "invalid"})
          => (~decoded.raised /\ decoded.policy = seed_policy)
    /\ decode_returned
          => ((decoded.parse_error # NoError) <=> (payload_kind = "invalid"))

C2_Witness ==
    /\ call.op = "_parse_policy"
    /\ payload_kind = "invalid"
    /\ decoded.parse_error = "invalid policy_json"
    /\ decoded.policy = seed_policy
    /\ seed_policy.deliberationBudget = 50

\* C3: under a candidate whose payload is not JSON, every score of the batch
\* is max(0, s - 0.08), where s is the score the same trajectory gets from
\* an empty-payload candidate (the seed policy, no parse error).
C3_UniformPenalty ==
    (evaluate_returned /\ payload_kind = "invalid")
        => /\ Len(eval_batch.scores) = Len(call.batch)
           /\ \A i \in 1..Len(call.batch) :
                eval_batch.scores[i] =
                    RMax(R(0),
                         RSub(evaluate(seed_policy, objective_weights, call.batch,
                                       Candidate(Payload("empty", EmptyObj)),
                                       FALSE).scores[i],
                              Rat(8, 100)))

C3_Witness ==
    /\ evaluate_returned
    /\ payload_kind = "invalid"
    /\ Len(call.batch) = 2
    /\ RLt(R(0), eval_batch.scores[1])
    /\ eval_batch.scores[2] = R(0)
    /\ eval_batch.outputs[2].score # R(0)

InIntBounds(x, lo, hi) == lo <= x /\ x <= hi
InRiskBounds(x) == RLe(Rat(5, 100), x) /\ RLe(x, Rat(95, 100))

\* C4: when the payload parses to an object, every one of toolRetryBudget,
\* deliberationBudget, memoryDepth and safeguards.maxRiskScore for which the
\* object supplies a number, in range or not, is within its bounds in the
\* decoded policy: [0,8], [1,12], [1,64] and [0.05,0.95].
C4_SuppliedFieldsClamped ==
    (decode_returned /\ payload_kind = "object")
        => /\ parsed_obj.toolRetryBudget.t = "num"
                => InIntBounds(decoded.policy.toolRetryBudget, 0, 8)
           /\ parsed_obj.deliberationBudget.t = "num"
                => InIntBounds(decoded.policy.deliberationBudget, 1, 12)
           /\ parsed_obj.memoryDepth.t = "num"
                => InIntBounds(decoded.policy.memoryDepth, 1, 64)
           /\ (parsed_obj.safeguards.t = "dict"
               /\ parsed_obj.safeguards.maxRiskScore.t = "num")
                => InRiskBounds(decoded.policy.safeguards.maxRiskScore)

C4_Witness ==
    /\ decode_returned
    /\ payload_kind = "object"
    /\ parsed_obj.toolRetryBudget = Num(R(-3))
    /\ parsed_obj.safeguards.maxRiskScore = Num(R(3))
    /\ decoded.policy.toolRetryBudget = 0
    /\ decoded.policy.safeguards.maxRiskScore = Rat(95, 100)
    /\ seed_policy.toolRetryBudget = -2

PolicyInBounds(policy) ==
    /\ InIntBounds(policy.toolRetryBudget, 0, 8)
    /\ InIntBounds(policy.deliberationBudget, 1, 12)
    /\ InIntBounds(policy.memoryDepth, 1, 64)
    /\ InRiskBounds(policy.safeguards.maxRiskScore)

\* C5: the seed policy built from the seed genome is clamped like a decoded
\* one, so the seed policy of a run and every policy evaluate uses in the
\* run have toolRetryBudget in [0,8], deliberationBudget in [1,12],
\* memoryDepth in [1,64] and maxRiskScore in [0.05,0.95].
C5_SeedWithinBounds ==
    /\ pc \in {"reflection_lm", "optimizing", "optimized", "done"}
          => PolicyInBounds(seed_policy)
    /\ (pc # "adapter" /\ evaluate_returned) => PolicyInBounds(decoded.policy)

\* What decoding the encoding of each valid policy has to return.
EncodedPolicies == {Candidate(JsonDumps(p)) : p \in ValidPolicies}
PolicyEncodedAs ==
    [c \in EncodedPolicies |->
        CHOOSE p \in ValidPolicies : Candidate(JsonDumps(p)) = c]

\* C6: round trip: decoding the encoding of a policy that satisfies every
\* Policy invariant, against any seed policy, returns that policy in every
\* field, with no parse error.
C6_RoundTrip ==
    (call.op = "_parse_policy" /\ call.candidate \in EncodedPolicies)
        => decoded = Returned(PolicyEncodedAs[call.candidate], NoError)

C6_Witness ==
    /\ call.op = "_parse_policy"
    /\ call.candidate \in EncodedPolicies
    /\ decoded.policy # seed_policy
    /\ decoded.policy.safeguards = [maxRiskScore |-> Rat(95, 100),
                                    disallowedTools |-> <<>>]
    /\ decoded.policy.toolPreferences = <<>>
    /\ seed_policy.toolPreferences # <<>>
    /\ seed_policy.safeguards.disallowedTools # <<>>

split_done == pc \in {"reflection_lm", "optimizing", "optimized", "done"}
supplied == Len(request.trajectories)

\* C7, as claimed: with at least 25 trajectories and no outer holdout, the
\* validation set is the last ceil(20% of n) trajectories and the training
\* set the first n - ceil(20% of n), in their order.
C7_ValidationIsCeil20 ==
    (split_done /\ supplied >= 25 /\ ~request.outerHoldoutApplied)
        => /\ valset = SubSeq(request.trajectories,
                              supplied - ((supplied + 4) \div 5) + 1, supplied)
           /\ trainset = SubSeq(request.trajectories, 1,
                                supplied - ((supplied + 4) \div 5))

\* C7, amended: with at least 25 trajectories and no outer holdout, the
\* validation set is the last floor(20% of n) trajectories and the training
\* set the first n - floor(20% of n), in their order.
C7_ValidationIsFloor20 ==
    (split_done /\ supplied >= 25 /\ ~request.outerHoldoutApplied)
        => /\ valset = SubSeq(request.trajectories,
                              supplied - (supplied \div 5) + 1, supplied)
           /\ trainset = SubSeq(request.trajectories, 1,
                                supplied - (supplied \div 5))

C7_Witness ==
    /\ split_done
    /\ supplied = 26
    /\ ~request.outerHoldoutApplied
    /\ Len(valset) = 5
    /\ Len(trainset) = 21
    /\ valset[1].id = 22
    /\ trainset[21].id = 21

\* C8: with an outer holdout declared, or with fewer than 25 trajectories,
\* the training set and the validation set given to the optimizer are both
\* the full trajectory list.
C8_FullSetBelowThreshold ==
    (split_done /\ (request.outerHoldoutApplied \/ supplied < 25))
        => (trainset = request.trajectories /\ valset = request.trajectories)

C8_Witness ==
    /\ pc = "optimizing"
    /\ supplied = 24
    /\ ~request.outerHoldoutApplied
    /\ Len(trainset) = 24
    /\ Len(valset) = 24

UnitObjectives(o) ==
    /\ InUnit(o.successRate)
    /\ InUnit(o.satisfaction)
    /\ InUnit(o.safety)
    /\ InUnit(o.toolReliability)
    /\ InUnit(o.efficiency)

\* C9: for every trajectory, policy and objective-weight map, the score of
\* an example and each of its five objectives lie in [0,1], and so does
\* every score evaluate returns, with or without the parse-error penalty.
C9_ScoresInUnitInterval ==
    evaluate_returned
        => \A i \in 1..Len(eval_batch.scores) :
              /\ InUnit(eval_batch.scores[i])
              /\ InUnit(eval_batch.outputs[i].score)
              /\ UnitObjectives(eval_batch.outputs[i].objectives)
              /\ InUnit(eval_batch.objective_scores.successRate[i])
              /\ InUnit(eval_batch.objective_scores.satisfaction[i])
              /\ InUnit(eval_batch.objective_scores.safety[i])
              /\ InUnit(eval_batch.objective_scores.toolReliability[i])
              /\ InUnit(eval_batch.objective_scores.efficiency[i])

\* The weighted sum lies above 1 before the clamp, the feedback and the
\* incident count are out of their ranges, and the tool calls are risky.
C9_Witness ==
    /\ evaluate_returned
    /\ Len(call.batch) = 1
    /\ RLt(R(1), weighted_total(objective_weights,
                                eval_batch.outputs[1].objectives,
                                decoded.policy))
    /\ eval_batch.scores[1] = R(1)
    /\ RLt(R(1), call.batch[1].userFeedback)
    /\ RLt(call.batch[1].safetyIncidents, R(0))

\* C10: evaluate returns no traces when captureTraces is false and one
\* trace per example, in input order, when it is true; scores, outputs and
\* each per-objective list have one entry per example, in input order.
C10_OneEntryPerExample ==
    evaluate_returned
        => /\ eval_batch.trajectories.present <=> call.capture_traces
           /\ ~call.capture_traces => eval_batch.trajectories.v = <<>>
           /\ call.capture_traces
                => /\ Len(eval_batch.trajectories.v) = Len(call.batch)
                   /\ \A i \in 1..Len(call.batch) :
                        /\ eval_batch.trajectories.v[i].data = call.batch[i]
                        /\ eval_batch.trajectories.v[i].score = eval_batch.scores[i]
           /\ Len(eval_batch.scores) = Len(call.batch)
           /\ Len(eval_batch.outputs) = Len(call.batch)
           /\ Len(eval_batch.objective_scores.successRate) = Len(call.batch)
           /\ Len(eval_batch.objective_scores.satisfaction) = Len(call.batch)
           /\ Len(eval_batch.objective_scores.safety) = Len(call.batch)
           /\ Len(eval_batch.objective_scores.toolReliability) = Len(call.batch)
           /\ Len(eval_batch.objective_scores.efficiency) = Len(call.batch)
           /\ \A i \in 1..Len(call.batch) :
                /\ eval_batch.outputs[i].trajectoryId = call.batch[i].id
                /\ eval_batch.outputs[i].objectives =
                       objectives_of(call.batch[i], decoded.policy)
                /\ eval_batch.objective_scores.safety[i] =
                       eval_batch.outputs[i].objectives.safety
                /\ eval_batch.scores[i] =
                       evaluate(seed_policy, objective_weights,
                                <<call.batch[i]>>, call.candidate,
                                FALSE).scores[1]

C10_Witness ==
    /\ evaluate_returned
    /\ call.capture_traces
    /\ Len(call.batch) = 2
    /\ Len(eval_batch.trajectories.v) = 2
    /\ eval_batch.trajectories.v[1].data.id # eval_batch.trajectories.v[2].data.id
    /\ eval_batch.scores[1] # eval_batch.scores[2]

OptimizerFailures ==
    {"Failed to initialize reflection LM", "GEPA optimization failed"}

\* C11: when the reflection LM cannot be set up or gepa.optimize raises, the
\* handler ends with one error response (status 400 or 500) that carries the
\* exception's message and no champion; it is the only response of the run;
\* and no step follows it, so the final evaluation and the champion
\* packaging are never reached.
C11_OptimizerFailureIsFatal ==
    [][/\ ~(pc = "failed" /\ response.detail \in OptimizerFailures)
       /\ response.status # 0 => response' = response
       /\ (pc = "reflection_lm" /\ pc' # "optimizing")
              \/ (pc = "optimizing" /\ pc' \notin {"optimizing", "optimized"})
          => /\ pc' = "failed"
             /\ response.status = 0
             /\ response'.status = IF pc = "reflection_lm" THEN 400 ELSE 500
             /\ response'.detail \in OptimizerFailures
             /\ response'.cause \in Exceptions
             /\ response'.champion = NoGenome
             /\ response'.history = <<>>
             /\ call' = NoCall /\ eval_batch' = NoBatch]_vars

C11_Witness ==
    /\ pc = "failed"
    /\ response.status = 500
    /\ response.detail = "GEPA optimization failed"
    /\ response.cause = "exc: budget exhausted"
    /\ response.champion = NoGenome
    /\ seed_policy # NoPolicy
    /\ Len(trainset) >= 1

\* C12: a request without trajectories never gets past the first check: no
\* seed policy, no seed candidate, no adapter call and no optimizer result
\* ever exist for it, and it ends with a 4xx response (400 "At least one
\* trajectory is required" when the caller is authorized).  Every run that
\* reaches the optimizer has at least one trajectory and a non-empty
\* training set.
C12_EmptyRequestRejectedEarly ==
    /\ Len(request.trajectories) = 0 /\ pc # "adapter" =>
           /\ pc \in {"received", "failed"}
           /\ seed_policy = NoPolicy
           /\ seed_candidate = Candidate(Payload("missing", EmptyObj))
           /\ trainset = <<>> /\ valset = <<>>
           /\ call = NoCall /\ eval_batch = NoBatch
           /\ result = NoResult
           /\ pc = "failed" =>
                  /\ response.status \in {400, 401}
                  /\ request.authorized =>
                         /\ response.status = 400
                         /\ response.detail = "At least one trajectory is required"
    /\ pc \in {"reflection_lm", "optimizing", "optimized", "done"} =>
           /\ Len(request.trajectories) >= 1
           /\ Len(trainset) >= 1
           /\ Len(valset) >= 1

C12_Witness ==
    /\ Len(request.trajectories) = 0
    /\ request.authorized
    /\ pc = "failed"
    /\ response.status = 400
    /\ seed_policy = NoPolicy

\* The policy fields of a genome.
policy_fields(genome) ==
    [systemPrompt |-> genome.systemPrompt,
     responseStyle |-> genome.responseStyle,
     toolPreferences |-> genome.toolPreferences,
     toolRetryBudget |-> genome.toolRetryBudget,
     deliberationBudget |-> genome.deliberationBudget,
     memoryDepth |-> genome.memoryDepth,
     safeguards |-> genome.safeguards]

finalize_crashed ==
    /\ pc = "failed"
    /\ response.detail = "Internal Server Error"
    /\ seed_policy # NoPolicy

\* C13: when gepa.optimize returns a result without a best_candidate, or
\* with one that is not a dict, the run does not fail; the champion's policy
\* is the seed policy and the champion evaluation is the evaluation of the
\* seed policy over the validation set, without the parse-error penalty.
C13_SeedReplacesInvalidBest ==
    /\ finalize_crashed => result.best_candidate.t = "dict"
    /\ (pc = "done" /\ result.best_candidate.t # "dict") =>
           /\ response.status = 200
           /\ policy_fields(response.champion) = seed_policy
           /\ response.championEvaluation =
                  champion_eval(evaluate_decoded(Returned(seed_policy, NoError),
                                                 objective_weights, valset,
                                                 FALSE))

\* The attribute extract_history reads: the first of history, step_history
\* and timeline that is a list.
history_attr(optimizer_result) ==
    IF optimizer_result.history.t = "list" THEN optimizer_result.history
    ELSE IF optimizer_result.step_history.t = "list"
    THEN optimizer_result.step_history
    ELSE IF optimizer_result.timeline.t = "list" THEN optimizer_result.timeline
    ELSE NoAttr

history_malformed(optimizer_result) ==
    \/ history_attr(optimizer_result).t # "list"
    \/ \E i \in 1..Len(history_attr(optimizer_result).v) :
          history_attr(optimizer_result).v[i].t # "dict"

\* C14: the history of a finished run is empty when the optimizer's result
\* has no history list or a list with an item that is not a record;
\* otherwise it has one entry per item, numbered 1..n in order.
C14_HistoryEmptyOrIndexed ==
    pc = "done" =>
        IF history_malformed(result) THEN response.history = <<>>
        ELSE /\ Len(response.history) = Len(history_attr(result).v)
             /\ \A i \in 1..Len(response.history) :
                    response.history[i].generation = i

\* What a call alone on the adapter decodes and returns.
alone_decode(t) == _parse_policy(seed_policy, threads[t].candidate)
alone_evaluate(t) ==
    evaluate(seed_policy, objective_weights, ThreadBatch, threads[t].candidate,
             threads[t].capture_traces)

\* C15: however the statements of concurrent _parse_policy and evaluate
\* calls interleave, the object adapter.seed_policy refers to keeps its
\* value, every call's policy and safeguards objects are its own (not the
\* seed's, not another call's), and each call returns or raises what it
\* does when it runs alone.
C15_CallsAreIndependent ==
    pc = "threads" =>
        /\ policy_at(policies, guards, SeedAddr) = seed_policy
        /\ \A t \in Threads :
              threads[t].policy # NoAddr =>
                 /\ threads[t].policy # SeedAddr
                 /\ policies[threads[t].policy].safeguards
                        # policies[SeedAddr].safeguards
                 /\ \A u \in Threads \ {t} :
                       threads[u].policy # NoAddr =>
                          /\ threads[u].policy # threads[t].policy
                          /\ policies[threads[u].policy].safeguards
                                 # policies[threads[t].policy].safeguards
        /\ \A t \in Threads :
              /\ threads[t].pc = "raised" =>
                     /\ alone_decode(t).raised
                     /\ alone_decode(t).exc = threads[t].exc
              /\ threads[t].pc = "returned" =>
                     /\ ~alone_decode(t).raised
                     /\ policy_at(policies, guards, threads[t].policy)
                            = alone_decode(t).policy
                     /\ threads[t].parse_error = alone_decode(t).parse_error
                     /\ threads[t].op = "evaluate" =>
                            threads[t].out = alone_evaluate(t)

C15_Witness ==
    /\ pc = "threads"
    /\ threads[1].pc = "returned" /\ threads[1].op = "evaluate"
    /\ threads[1].candidate.policy_json.kind = "object"
    /\ threads[2].pc = "memoryDepth"
    /\ threads[2].candidate # threads[1].candidate
    /\ policy_at(policies, guards, 1) # seed_policy
    /\ policy_at(policies, guards, 2) # policy_at(policies, guards, 1)

\* C16: the champion of a finished run carries the seed genome's
\* mutationTrace followed by the entry of this run.
C16_ChampionExtendsTrace ==
    pc = "done" =>
        response.champion.mutationTrace
            = request.seedGenome.mutationTrace \o <<"python-sidecar-gepa">>

\* C17: in every EvaluationBatch evaluate returns, whatever the candidate,
\* the score inside outputs[i] is scores[i], and so is the score of the
\* i-th trace when traces are captured.
C17_OutputScoreIsScore ==
    evaluate_returned =>
        \A i \in 1..Len(eval_batch.scores) :
            /\ eval_batch.outputs[i].score = eval_batch.scores[i]
            /\ eval_batch.trajectories.present =>
                   /\ eval_batch.trajectories.v[i].score = eval_batch.scores[i]
                   /\ eval_batch.trajectories.v[i].output.score
                          = eval_batch.scores[i]

\* C17, amended: in every EvaluationBatch evaluate returns, the score of the
\* i-th captured trace is scores[i] and its output is outputs[i]; the score
\* inside outputs[i] is scores[i] when the payload is empty or parses, and
\* is the score before the reduction when the payload fails to parse:
\* scores[i] = max(0, outputs[i].score - 0.08).
C17_OutputScoreIsUnreduced ==
    evaluate_returned =>
        \A i \in 1..Len(eval_batch.scores) :
            /\ eval_batch.scores[i] =
                   IF payload_kind = "invalid"
                   THEN RMax(R(0), RSub(eval_batch.outputs[i].score, Rat(8, 100)))
                   ELSE eval_batch.outputs[i].score
            /\ eval_batch.trajectories.present =>
                   /\ eval_batch.trajectories.v[i].score = eval_batch.scores[i]
                   /\ eval_batch.trajectories.v[i].output = eval_batch.outputs[i]

C17_Witness ==
    /\ evaluate_returned
    /\ payload_kind = "invalid"
    /\ call.capture_traces
    /\ Len(eval_batch.scores) = 2
    /\ eval_batch.outputs[1].score # eval_batch.scores[1]
    /\ eval_batch.trajectories.v[1].score = eval_batch.scores[1]
    /\ eval_batch.scores[2] = R(0)

running_procs == {p \in Pids : procs[p].status = "running"}

\* C18: at most one subprocess the session started is running, and it is
\* the one the session tracks; a start while the tracked subprocess runs is
\* refused and changes neither the session's force-run keys nor the
\* subprocesses; a start succeeds only when no subprocess is tracked or the
\* tracked one has exited.
C18_SingleForceRun ==
    /\ [](pc = "dashboard" =>
            /\ Cardinality(running_procs) <= 1
            /\ running_procs \subseteq {session.force_proc})
    /\ [][StartForceRun =>
            /\ (session.force_proc # 0 /\ still_running(session.force_proc)) =>
                   /\ ~reply'.ok
                   /\ reply'.message = "A force-run is already in progress."
                   /\ session' = session
                   /\ procs' = procs
                   /\ files' = files
            /\ reply'.ok =>
                   /\ session.force_proc = 0
                          \/ procs[session.force_proc].status = "exited"
                   /\ running_procs = {}
                   /\ running_procs' = {session'.force_proc}]_vars

C18_Witness ==
    /\ pc = "dashboard"
    /\ reply.op = "start" /\ ~reply.ok
    /\ reply.message = "A force-run is already in progress."
    /\ session.force_proc = 2
    /\ still_running(2)
    /\ procs[1].status = "reaped"

====
